---- MODULE Spec2Model ----
(***************************************************************************)
(* Model of src/data_process.py, second script (lines 340-603): the        *)
(* synthetic metric reconciliation of advertising records.                 *)
(*                                                                         *)
(* A run is one execution of fix_data_comprehensive followed by            *)
(* compare_before_after.  Two runs over the same input file are modelled   *)
(* (run 2 starts when run 1 has finished) so that reproducibility can be   *)
(* stated.  SpecMain is a run of main(), the whole script: it reads the    *)
(* file, saves the table and handles what is raised on the way.            *)
(*                                                                         *)
(* Numbers.  Python floats are modelled as exact non-negative rationals    *)
(* [num, den] in lowest terms; den = 0 stands for the result of a division *)
(* by zero.  Counts (Clicks, conversions, ...) are naturals.               *)
(*                                                                         *)
(* Randomness.  numpy's global generator is modelled by its state          *)
(* [seed, pos]: the stream it was initialised from and the number of       *)
(* draws taken from it.  stream[s] is the sequence of raw values the       *)
(* generator yields when initialised from s; it is a fixed function of s,  *)
(* revealed value by value as draws are made, so a second reader of the    *)
(* same stream sees the same values.  A raw value u in 0..RawMax is a      *)
(* quantile: uniform(lo, hi) is lo + (hi - lo) * u / RawMax, random() is   *)
(* u / (RawMax + 1), binomial(n, p) is the point u * n / RawMax of its     *)
(* support 0..n.                                                           *)
(***************************************************************************)
EXTENDS Integers, Sequences, FiniteSets, TLC

VARIABLES
    file,       \* the rows of facebook_ads_final_clean.csv
    pc,         \* pc[r]: position of run r
    heap,       \* heap[r][o]: rows of the DataFrame object o of run r
    df_fixed,   \* df_fixed[r]: the object the name df_fixed is bound to
    idx,        \* idx[r]: number of rows the loop of run r has processed
    rng,        \* rng[r]: state of numpy's global generator in run r
    stream,     \* stream[s]: the revealed prefix of the stream of seed s
    locals,     \* locals[r][k]: locals of calculate_realistic_metrics on row k
    report,     \* report[r]: the counts compare_before_after computed
    input_exists, \* whether facebook_ads_final_clean.csv is on disk
    output,     \* output[r]: what run r has put in facebook_ads_logic_fixed.csv
    proc        \* proc[r]: what was raised in run r, its console, its exit status

vars == <<file, pc, heap, df_fixed, idx, rng, stream, locals, report,
          input_exists, output, proc>>

(***************************************************************************)
(* Bounds.                                                                 *)
(***************************************************************************)
MaxRows == 2    \* longest input table
RawMax == 2     \* raw draws are the quantiles 0..RawMax

Runs == {1, 2}

(***************************************************************************)
(* Rationals.                                                              *)
(***************************************************************************)
RECURSIVE GCD(_, _)
GCD(a, b) == IF b = 0 THEN a ELSE GCD(b, a % b)

Frac(n, d) ==
    IF d = 0 THEN [num |-> n, den |-> 0]
    ELSE LET g == GCD(n, d) IN [num |-> n \div g, den |-> d \div g]

Zero == [num |-> 0, den |-> 1]
Whole(n) == [num |-> n, den |-> 1]
IsNaN(a) == a.den = 0

FMul(a, b) == Frac(a.num * b.num, a.den * b.den)
FDiv(a, b) == Frac(a.num * b.den, a.den * b.num)
FAdd(a, b) == Frac(a.num * b.den + b.num * a.den, a.den * b.den)
FSub(a, b) == Frac(a.num * b.den - b.num * a.den, a.den * b.den)
FLt(a, b) == a.num * b.den < b.num * a.den
FLe(a, b) == a.num * b.den <= b.num * a.den
FMax(a, b) == IF FLt(a, b) THEN b ELSE a
FMin(a, b) == IF FLt(b, a) THEN b ELSE a
Floor(a) == a.num \div a.den

(***************************************************************************)
(* numpy.random: the draws as functions of the raw value u.                *)
(***************************************************************************)
FixedSeed == 42

\* The generator state of a fresh process: initialised from OS entropy,
\* a stream of its own (named by a negative number) for every process.
EntropyState(r) == [seed |-> 0 - r, pos |-> 0]

SeedKeepsEntropy(state, seed) == state

\* np.random.seed(seed)
SeedRng(state, seed) == [seed |-> seed, pos |-> 0]

\* np.random.uniform(lo, hi)
Uniform(lo, hi, u) == FAdd(lo, FMul(FSub(hi, lo), Frac(u, RawMax)))

\* np.random.random(): a value in [0, 1)
Random(u) == Frac(u, RawMax + 1)

\* np.random.binomial(n, p): a value in 0..n
Binomial(n, p, u) ==
    IF p.num = 0 THEN 0
    ELSE IF p.num = p.den THEN n
    ELSE (u * n) \div RawMax

(***************************************************************************)
(* settings (lines 357-371) and the age multiplier of lines 427-430.       *)
(***************************************************************************)
AgeCvr(age) ==
    CASE age = "18-24" -> Frac(10, 1000)
      [] age = "25-29" -> Frac(18, 1000)
      [] age = "30-34" -> Frac(28, 1000)
      [] age = "35-39" -> Frac(35, 1000)
      [] age = "40-44" -> Frac(42, 1000)
      [] age = "45-49" -> Frac(38, 1000)
      [] age = "50+"   -> Frac(25, 1000)
      [] OTHER         -> Frac(28, 1000)

GenderAdj(gender) ==
    CASE gender = "M" -> Frac(100, 100)
      [] gender = "F" -> Frac(112, 100)
      [] OTHER        -> Frac(100, 100)

RevenueTiersFromZero(tier) ==
    CASE tier = "basic"    -> [lo |-> Whole(0),   hi |-> Whole(120)]
      [] tier = "standard" -> [lo |-> Whole(150), hi |-> Whole(400)]
      [] tier = "premium"  -> [lo |-> Whole(600), hi |-> Whole(1200)]

RevenueTiers(tier) ==
    CASE tier = "basic"    -> [lo |-> Whole(40),  hi |-> Whole(120)]
      [] tier = "standard" -> [lo |-> Whole(150), hi |-> Whole(400)]
      [] tier = "premium"  -> [lo |-> Whole(600), hi |-> Whole(1200)]

AgeRevenueMult(age) ==
    CASE age = "18-24" -> Frac(8, 10)
      [] age = "25-29" -> Frac(9, 10)
      [] age = "30-34" -> Frac(11, 10)
      [] age = "35-39" -> Frac(13, 10)
      [] age = "40-44" -> Frac(14, 10)
      [] age = "45-49" -> Frac(12, 10)
      [] age = "50+"   -> Frac(10, 10)
      [] OTHER         -> Frac(10, 10)

(***************************************************************************)
(* get_product_tier (lines 373-380).                                       *)
(***************************************************************************)
GetProductTierPremiumFirst(spent, clicks) ==
    IF spent > 50 \/ clicks > 30 THEN "premium"
    ELSE IF spent < 10 \/ clicks < 5 THEN "basic"
    ELSE "standard"

GetProductTier(spent, clicks) ==
    IF spent < 10 \/ clicks < 5 THEN "basic"
    ELSE IF spent > 50 \/ clicks > 30 THEN "premium"
    ELSE "standard"

(***************************************************************************)
(* calculate_realistic_metrics (lines 382-452).                            *)
(***************************************************************************)
\* line 398
Ctr(clicks, impressions) ==
    IF impressions > 0 THEN Frac(clicks, impressions) ELSE Zero

\* line 399
QualityAdj(ctr) ==
    IF FLt(Frac(3, 10000), ctr) THEN Frac(12, 10)
    ELSE IF FLt(ctr, Frac(1, 10000)) THEN Frac(8, 10)
    ELSE Frac(10, 10)

\* lines 402-410: the ceiling and the range the variance is drawn from
SampleSizePolicy(clicks) ==
    IF clicks <= 3
    THEN [max_cvr |-> Frac(12, 100), lo |-> Frac(6, 10), hi |-> Frac(15, 10)]
    ELSE IF clicks <= 8
    THEN [max_cvr |-> Frac(8, 100), lo |-> Frac(8, 10), hi |-> Frac(13, 10)]
    ELSE [max_cvr |-> Frac(6, 100), lo |-> Frac(9, 10), hi |-> Frac(11, 10)]

ClampCvrMissing(cvr, max_cvr) == cvr

\* line 413
ClampCvr(cvr, max_cvr) == FMax(Frac(5, 1000), FMin(max_cvr, cvr))

NewConversionsThresholdTypo(clicks, realistic_cvr, u) ==
    LET expected == FMul(realistic_cvr, Whole(clicks)) IN
    IF FLt(expected, Frac(15, 10))
    THEN [count |-> IF FLt(Random(u), expected) THEN 1 ELSE 0,
          branch |-> "bernoulli"]
    ELSE [count |-> Binomial(clicks, realistic_cvr, u), branch |-> "binomial"]

NewConversionsAlwaysBinomial(clicks, realistic_cvr, u) ==
    [count |-> Binomial(clicks, realistic_cvr, u), branch |-> "binomial"]

\* lines 416-419
NewConversions(clicks, realistic_cvr, u) ==
    LET expected == FMul(realistic_cvr, Whole(clicks)) IN
    IF FLt(expected, Frac(15, 100))
    THEN [count |-> IF FLt(Random(u), expected) THEN 1 ELSE 0,
          branch |-> "bernoulli"]
    ELSE [count |-> Binomial(clicks, realistic_cvr, u), branch |-> "binomial"]

ApprovedConvDivides(new_conversions, approval_rate) ==
    Floor(FDiv(Whole(new_conversions), approval_rate))

ApprovedConvRounds(new_conversions, approval_rate) ==
    Floor(FAdd(FMul(Whole(new_conversions), approval_rate), Frac(1, 2)))

\* line 442: max(0, int(new_conversions * approval_rate))
ApprovedConv(new_conversions, approval_rate) ==
    LET a == Floor(FMul(Whole(new_conversions), approval_rate)) IN
    IF a > 0 THEN a ELSE 0

\* line 391: the six returned values are 0, nothing is drawn
ZeroMetrics ==
    [new_conversions |-> 0, approved_conv |-> 0,
     total_revenue |-> Zero, approved_revenue |-> Zero,
     new_cvr_total |-> Zero, new_cvr_approved |-> Zero,
     draws |-> 0, branch |-> "none", tier |-> "none",
     realistic_cvr |-> Zero, max_cvr |-> Zero,
     variance |-> Zero, base_revenue |-> Zero, revenue_per_conv |-> Zero,
     approval_rate |-> Zero]

\* lines 393-452; us[1..4] are the raw values of the draws, in call order
ClickedMetrics(row, us) ==
    LET clicks == row.Clicks
        spent == row.Spent
        age == row.age
        base_cvr == AgeCvr(age)
        gender_mult == GenderAdj(row.gender)
        quality_adj == QualityAdj(Ctr(clicks, row.Impressions))
        policy == SampleSizePolicy(clicks)
        variance == Uniform(policy.lo, policy.hi, us[1])
        realistic_cvr ==
            ClampCvr(FMul(FMul(FMul(base_cvr, gender_mult), quality_adj), variance),
                     policy.max_cvr)
        conv == NewConversions(clicks, realistic_cvr, us[2])
        new_conversions == conv.count
        product_tier == GetProductTier(spent, clicks)
        revenue_range == RevenueTiers(product_tier)
        base_revenue == Uniform(revenue_range.lo, revenue_range.hi, us[3])
        revenue_per_conv ==
            IF new_conversions > 0
            THEN FMul(base_revenue, AgeRevenueMult(age)) ELSE Zero
        total_revenue ==
            IF new_conversions > 0
            THEN FMul(Whole(new_conversions), revenue_per_conv) ELSE Zero
        approval_rate == Uniform(Frac(70, 100), Frac(88, 100), us[4])
        approved_conv ==
            IF new_conversions > 0
            THEN ApprovedConv(new_conversions, approval_rate) ELSE 0
        approved_revenue ==
            IF new_conversions > 0 /\ approved_conv > 0
            THEN FMul(Whole(approved_conv), revenue_per_conv) ELSE Zero
    IN  [new_conversions |-> new_conversions, approved_conv |-> approved_conv,
         total_revenue |-> total_revenue, approved_revenue |-> approved_revenue,
         new_cvr_total |-> FDiv(Whole(new_conversions), Whole(clicks)),
         new_cvr_approved |-> FDiv(Whole(approved_conv), Whole(clicks)),
         draws |-> IF new_conversions > 0 THEN 4 ELSE 2,
         branch |-> conv.branch,
         tier |-> IF new_conversions > 0 THEN product_tier ELSE "none",
         realistic_cvr |-> realistic_cvr, max_cvr |-> policy.max_cvr,
         variance |-> variance,
         base_revenue |-> IF new_conversions > 0 THEN base_revenue ELSE Zero,
         revenue_per_conv |-> revenue_per_conv,
         approval_rate |-> IF new_conversions > 0 THEN approval_rate ELSE Zero]

CalculateWithoutZeroGuard(row, us) == ClickedMetrics(row, us)

CalculateDrawsBeforeGuard(row, us) ==
    IF row.Clicks = 0 THEN [ZeroMetrics EXCEPT !.draws = 1]
    ELSE ClickedMetrics(row, us)

\* lines 382-452
CalculateRealisticMetrics(row, us) ==
    IF row.Clicks = 0 THEN ZeroMetrics ELSE ClickedMetrics(row, us)

(***************************************************************************)
(* The loop body of fix_data_comprehensive (lines 459-492).                *)
(***************************************************************************)
DerivedRatiosStaleRevenue(row, m) ==
    LET spent == row.Spent IN
    [CPA_Total |-> IF m.new_conversions > 0
                   THEN FDiv(Whole(spent), Whole(m.new_conversions)) ELSE Zero,
     CPA_Approved |-> IF m.approved_conv > 0
                      THEN FDiv(Whole(spent), Whole(m.approved_conv)) ELSE Zero,
     ROAS_Total |-> IF spent > 0
                    THEN FDiv(row.Revenue_Total, Whole(spent)) ELSE Zero,
     ROAS_Approved |-> IF spent > 0
                       THEN FDiv(row.Revenue_Approved, Whole(spent)) ELSE Zero]

DerivedRatiosUnguardedCpa(row, m) ==
    LET spent == row.Spent IN
    [CPA_Total |-> FDiv(Whole(spent), Whole(m.new_conversions)),
     CPA_Approved |-> FDiv(Whole(spent), Whole(m.approved_conv)),
     ROAS_Total |-> IF spent > 0
                    THEN FDiv(m.total_revenue, Whole(spent)) ELSE Zero,
     ROAS_Approved |-> IF spent > 0
                       THEN FDiv(m.approved_revenue, Whole(spent)) ELSE Zero]

\* lines 474-492
DerivedRatios(row, m) ==
    LET spent == row.Spent IN
    [CPA_Total |-> IF m.new_conversions > 0
                   THEN FDiv(Whole(spent), Whole(m.new_conversions)) ELSE Zero,
     CPA_Approved |-> IF m.approved_conv > 0
                      THEN FDiv(Whole(spent), Whole(m.approved_conv)) ELSE Zero,
     ROAS_Total |-> IF spent > 0
                    THEN FDiv(m.total_revenue, Whole(spent)) ELSE Zero,
     ROAS_Approved |-> IF spent > 0
                       THEN FDiv(m.approved_revenue, Whole(spent)) ELSE Zero]

\* lines 467-472: the six columns written from the returned values
WriteMetrics(row, m) ==
    [row EXCEPT !.Total_Conversion = m.new_conversions,
                !.Approved_Conversion = m.approved_conv,
                !.Revenue_Total = m.total_revenue,
                !.Revenue_Approved = m.approved_revenue,
                !.CVR_Total = m.new_cvr_total,
                !.CVR_Approved = m.new_cvr_approved]

\* lines 478-492: the four columns written from the recomputed ratios
WriteRatios(row, d) ==
    [row EXCEPT !.CPA_Total = d.CPA_Total,
                !.CPA_Approved = d.CPA_Approved,
                !.ROAS_Total = d.ROAS_Total,
                !.ROAS_Approved = d.ROAS_Approved]

UpdateRowOnlyConverting(row, m) ==
    IF m.new_conversions > 0
    THEN WriteRatios(WriteMetrics(row, m), DerivedRatios(row, m))
    ELSE row

\* lines 464-492: the row of df_fixed after the loop body
UpdateRow(row, m) == WriteRatios(WriteMetrics(row, m), DerivedRatios(row, m))

DfAlias(obj) == obj

\* line 354: df.copy() is a new object
DfCopy(obj) == "copy"

(***************************************************************************)
(* compare_before_after (lines 496-552): the two consistency counts.       *)
(***************************************************************************)
\* line 534
HighRoasZeroConv(fixed_df) ==
    Cardinality({k \in 1..Len(fixed_df) :
        /\ FLt(Whole(5), fixed_df[k].ROAS_Total)
        /\ fixed_df[k].Total_Conversion = 0})

\* lines 538-543
RevenueConvConsistent(fixed_df) ==
    Cardinality({k \in 1..Len(fixed_df) :
        \/ /\ fixed_df[k].Total_Conversion = 0
           /\ fixed_df[k].Revenue_Total = Zero
        \/ /\ fixed_df[k].Total_Conversion > 0
           /\ FLt(Zero, fixed_df[k].Revenue_Total)})

(***************************************************************************)
(* Input tables.                                                           *)
(***************************************************************************)
\* Values the ten synthesized columns may carry in the input.
OldHighRoas ==
    [Total_Conversion |-> 0, Approved_Conversion |-> 0,
     Revenue_Total |-> Whole(500), Revenue_Approved |-> Whole(500),
     CVR_Total |-> Zero, CVR_Approved |-> Zero,
     CPA_Total |-> Whole(9), CPA_Approved |-> Whole(9),
     ROAS_Total |-> Whole(30), ROAS_Approved |-> Whole(30)]

OldOverConverted ==
    [Total_Conversion |-> 3, Approved_Conversion |-> 2,
     Revenue_Total |-> Zero, Revenue_Approved |-> Zero,
     CVR_Total |-> Whole(3), CVR_Approved |-> Whole(2),
     CPA_Total |-> Zero, CPA_Approved |-> Zero,
     ROAS_Total |-> Zero, ROAS_Approved |-> Zero]

OldPlausible ==
    [Total_Conversion |-> 1, Approved_Conversion |-> 1,
     Revenue_Total |-> Whole(100), Revenue_Approved |-> Whole(100),
     CVR_Total |-> Frac(1, 9), CVR_Approved |-> Frac(1, 9),
     CPA_Total |-> Whole(12), CPA_Approved |-> Whole(12),
     ROAS_Total |-> Frac(100, 12), ROAS_Approved |-> Frac(100, 12)]

Record(ad, age, gender, impressions, clicks, spent, old) ==
    [ad_id |-> ad, age |-> age, gender |-> gender,
     Impressions |-> impressions, Clicks |-> clicks, Spent |-> spent] @@ old

\* The end-to-end scenario row of the specification.
ScenarioRow == Record(3, "35-39", "F", 1000, 20, 60, OldHighRoas)

InputRows ==
    { Record(1, "30-34", "M", 100, 0, 7, OldHighRoas),
      Record(2, "18-24", "M", 20000, 1, 2, OldOverConverted),
      ScenarioRow,
      Record(4, "40-44", "F", 1000, 9, 0, OldPlausible),
      Record(5, "unknown", "X", 0, 5, 30, OldHighRoas),
      Record(6, "40-44", "F", 1000, 3, 60, OldPlausible) }

Tables == UNION { [1..n -> InputRows] : n \in 0..MaxRows }

\* The tables the program is run twice over.
ReplayRows == {row \in InputRows : row.ad_id \in {1, 3, 5, 6}}
ReplayTables == UNION { [1..n -> ReplayRows] : n \in 0..MaxRows }

\* The raw values a run over the table draws from: every quantile for a
\* table of at most one record, the two extreme ones for a longer table.
Raw(table) == IF Len(table) <= 1 THEN 0..RawMax ELSE {0, RawMax}

Seeds == {FixedSeed} \cup {0 - r : r \in Runs}

\* A cell read_csv found empty (NaN).
NoValue == 0 - 1

\* A row whose Clicks cell is empty.
BadRow == Record(7, "30-34", "M", 500, NoValue, 4, OldPlausible)

\* The input tables of the runs of main(): rows without clicks, rows drawn
\* on the Bernoulli branch and rows without a Clicks value.
MainRows == {row \in InputRows : row.ad_id \in {1, 2}} \cup {BadRow}
MainTables == UNION { [1..n -> MainRows] : n \in 0..MaxRows }

(***************************************************************************)
(* The state machine.                                                      *)
(***************************************************************************)
\* Nothing written to the output file.
NoOutput == [written |-> FALSE, complete |-> FALSE, rows |-> <<>>]

\* Nothing raised, nothing printed, the process still running.
NoFailure == [raised |-> "none", stage |-> "none", console |-> <<>>,
              exit |-> "running"]

\* A raise: the exception class and the step of main() it came from.
Raise(p, class, stage) == [p EXCEPT !.raised = class, !.stage = stage]

\* line 419: np.random.binomial rejects an n that is not a number
RaisesInSynthesis(row) == row.Clicks = NoValue

\* A run that no longer executes anything.
Ended(r) == pc[r] \in {"done", "raised", "exited"}

InitOf(tables, runs) ==
    /\ file \in tables
    /\ pc = [r \in Runs |-> IF r \in runs THEN "start" ELSE "off"]
    /\ heap = [r \in Runs |-> [o \in {"df", "copy"} |-> <<>>]]
    /\ df_fixed = [r \in Runs |-> "none"]
    /\ idx = [r \in Runs |-> 0]
    /\ rng = [r \in Runs |-> EntropyState(r)]
    /\ stream = [s \in Seeds |-> <<>>]
    /\ locals = [r \in Runs |-> <<>>]
    /\ report = [r \in Runs |-> [computed |-> FALSE,
                                high_roas_zero_conv |-> 0,
                                revenue_conv_consistent |-> 0]]
    /\ input_exists = TRUE
    /\ output = [r \in Runs |-> NoOutput]
    /\ proc = [r \in Runs |-> NoFailure]

\* One run of the program over any input table.
Init == InitOf(Tables, {1})

\* The program run twice, one run after the other, over the same input table.
InitTwice == InitOf(ReplayTables, Runs)

\* lines 345-457: read the file, copy the table, seed the generator
FixBegin(r) ==
    /\ pc[r] = "start"
    /\ \A q \in Runs : q < r => Ended(q)
    /\ pc' = [pc EXCEPT ![r] = "loop"]
    /\ heap' = [heap EXCEPT ![r] = [o \in {"df", "copy"} |-> file]]
    /\ df_fixed' = [df_fixed EXCEPT ![r] = DfCopy("df")]
    /\ rng' = [rng EXCEPT ![r] = SeedRng(rng[r], FixedSeed)]
    /\ UNCHANGED <<file, idx, stream, locals, report, input_exists, output, proc>>

\* lines 459-492: one iteration of the loop over df_fixed.iterrows()
FixRecord(r) ==
    /\ pc[r] = "loop"
    /\ idx[r] < Len(heap[r][df_fixed[r]])
    /\ ~ RaisesInSynthesis(heap[r][df_fixed[r]][idx[r] + 1])
    /\ LET k == idx[r] + 1
           row == heap[r][df_fixed[r]][k]
           s == stream[rng[r].seed]
           p == rng[r].pos
           \* the values draw i can yield: the revealed one, or any
           Avail(i) == IF p + i <= Len(s) THEN {s[p + i]} ELSE Raw(file)
           Pick(i, taken) == IF taken THEN Avail(i) ELSE {0}
           n0 == CalculateRealisticMetrics(row, <<0, 0, 0, 0>>).draws
       IN  \E u1 \in Pick(1, n0 >= 1) : \E u2 \in Pick(2, n0 >= 2) :
           LET n2 == CalculateRealisticMetrics(row, <<u1, u2, 0, 0>>).draws IN
           \E u3 \in Pick(3, n2 >= 3) : \E u4 \in Pick(4, n2 >= 4) :
             LET m == CalculateRealisticMetrics(row, <<u1, u2, u3, u4>>)
                 us == <<u1, u2, u3, u4>>
             IN
             /\ stream' = [stream EXCEPT ![rng[r].seed] =
                    IF p + m.draws <= Len(s) THEN s
                    ELSE SubSeq(s, 1, p) \o [i \in 1..m.draws |-> us[i]]]
             /\ rng' = [rng EXCEPT ![r].pos = p + m.draws]
             /\ heap' = [heap EXCEPT ![r][df_fixed[r]][k] = UpdateRow(row, m)]
             /\ locals' = [locals EXCEPT ![r] =
                    Append(@, m @@ [pos_before |-> p, pos_after |-> p + m.draws])]
    /\ idx' = [idx EXCEPT ![r] = @ + 1]
    /\ UNCHANGED <<file, pc, df_fixed, report, input_exists, output, proc>>

\* line 494: the loop is exhausted, df_fixed is returned
FixReturn(r) ==
    /\ pc[r] = "loop"
    /\ idx[r] = Len(heap[r][df_fixed[r]])
    /\ pc' = [pc EXCEPT ![r] = "returned"]
    /\ UNCHANGED <<file, heap, df_fixed, idx, rng, stream, locals, report,
                   input_exists, output, proc>>

\* lines 496-552: compare_before_after(original_df, fixed_df)
Compare(r) ==
    /\ pc[r] = "returned"
    /\ Len(heap[r][df_fixed[r]]) > 0
    /\ report' = [report EXCEPT ![r] =
           [computed |-> TRUE,
            high_roas_zero_conv |-> HighRoasZeroConv(heap[r][df_fixed[r]]),
            revenue_conv_consistent |-> RevenueConvConsistent(heap[r][df_fixed[r]])]]
    /\ pc' = [pc EXCEPT ![r] = "done"]
    /\ UNCHANGED <<file, heap, df_fixed, idx, rng, stream, locals,
                   input_exists, output, proc>>

\* line 545: revenue_conv_consistent/len(fixed_df) on a table without rows
\* is an integer division by zero
CompareRaises(r) ==
    /\ pc[r] = "returned"
    /\ Len(heap[r][df_fixed[r]]) = 0
    /\ pc' = [pc EXCEPT ![r] = "raised"]
    /\ proc' = [proc EXCEPT ![r] = Raise(@, "Exception", "compare")]
    /\ UNCHANGED <<file, heap, df_fixed, idx, rng, stream, locals, report,
                   input_exists, output>>

Next ==
    \E r \in Runs :
        \/ FixBegin(r)
        \/ FixRecord(r)
        \/ FixReturn(r)
        \/ Compare(r)
        \/ CompareRaises(r)

Spec == Init /\ [][Next]_vars

(***************************************************************************)
(* main (lines 554-604).                                                   *)
(***************************************************************************)
\* lines 561-570: original_df = pd.read_csv(...), the file being there
MainRead(r) ==
    /\ pc[r] = "main"
    /\ input_exists
    /\ pc' = [pc EXCEPT ![r] = "start"]
    /\ UNCHANGED <<file, heap, df_fixed, idx, rng, stream, locals, report,
                   input_exists, output, proc>>

\* line 564: pd.read_csv raises FileNotFoundError
MainReadMissing(r) ==
    /\ pc[r] = "main"
    /\ ~ input_exists
    /\ pc' = [pc EXCEPT ![r] = "raised"]
    /\ proc' = [proc EXCEPT ![r] = Raise(@, "FileNotFoundError", "read")]
    /\ UNCHANGED <<file, heap, df_fixed, idx, rng, stream, locals, report,
                   input_exists, output>>

\* lines 464, 410-419: calculate_realistic_metrics draws the variance and
\* raises at the Binomial draw; no column of the row has been written
FixRecordRaises(r) ==
    /\ pc[r] = "loop"
    /\ idx[r] < Len(heap[r][df_fixed[r]])
    /\ RaisesInSynthesis(heap[r][df_fixed[r]][idx[r] + 1])
    /\ LET s == stream[rng[r].seed]
           p == rng[r].pos
       IN  \E u1 \in (IF p + 1 <= Len(s) THEN {s[p + 1]} ELSE Raw(file)) :
             /\ stream' = [stream EXCEPT ![rng[r].seed] =
                    IF p + 1 <= Len(s) THEN s ELSE Append(s, u1)]
             /\ rng' = [rng EXCEPT ![r].pos = p + 1]
    /\ pc' = [pc EXCEPT ![r] = "raised"]
    /\ proc' = [proc EXCEPT ![r] = Raise(@, "Exception", "synthesis")]
    /\ UNCHANGED <<file, heap, df_fixed, idx, locals, report, input_exists, output>>

ReadyToSaveInLoop(r) == pc[r] \in {"loop", "returned"}

\* lines 574-578: to_csv is called when fix_data_comprehensive has returned
ReadyToSave(r) == pc[r] = "returned"

\* lines 576-579: fixed_df.to_csv(output_file), then the message
MainWrite(r) ==
    /\ ReadyToSave(r)
    /\ ~ output[r].written
    /\ output' = [output EXCEPT ![r] =
           [written |-> TRUE, complete |-> TRUE, rows |-> heap[r][df_fixed[r]]]]
    /\ proc' = [proc EXCEPT ![r].console = Append(@, "saved")]
    /\ UNCHANGED <<file, pc, heap, df_fixed, idx, rng, stream, locals, report,
                   input_exists>>

\* line 578: to_csv raises (the disk is full, the file cannot be opened)
\* after any number of the rows went out
MainWriteFails(r) ==
    /\ ReadyToSave(r)
    /\ ~ output[r].written
    /\ \E n \in 0..Len(heap[r][df_fixed[r]]) :
         output' = [output EXCEPT ![r] =
            [written |-> TRUE, complete |-> FALSE,
             rows |-> SubSeq(heap[r][df_fixed[r]], 1, n)]]
    /\ pc' = [pc EXCEPT ![r] = "raised"]
    /\ proc' = [proc EXCEPT ![r] = Raise(@, "Exception", "write")]
    /\ UNCHANGED <<file, heap, df_fixed, idx, rng, stream, locals, report,
                   input_exists>>

\* line 582: compare_before_after, called after the table was saved
MainCompare(r) == output[r].complete /\ Compare(r)

MainCompareRaises(r) == output[r].complete /\ CompareRaises(r)

\* lines 596-601: the two except clauses print their message
MainExcept(r) ==
    /\ pc[r] = "raised"
    /\ pc' = [pc EXCEPT ![r] = "handled"]
    /\ proc' = [proc EXCEPT ![r].console =
           Append(@, IF proc[r].raised = "FileNotFoundError"
                     THEN "not_found" ELSE "error")]
    /\ UNCHANGED <<file, heap, df_fixed, idx, rng, stream, locals, report,
                   input_exists, output>>

\* lines 603-604: main() returns, after the try block or after a handler,
\* and the script ends: exit status 0
MainExit(r) ==
    /\ pc[r] \in {"done", "handled"}
    /\ pc' = [pc EXCEPT ![r] = "exited"]
    /\ proc' = [proc EXCEPT ![r].exit = "status 0"]
    /\ UNCHANGED <<file, heap, df_fixed, idx, rng, stream, locals, report,
                   input_exists, output>>

NextMain ==
    \E r \in Runs :
        \/ MainRead(r)
        \/ MainReadMissing(r)
        \/ FixBegin(r)
        \/ FixRecord(r)
        \/ FixRecordRaises(r)
        \/ FixReturn(r)
        \/ MainWrite(r)
        \/ MainWriteFails(r)
        \/ MainCompare(r)
        \/ MainCompareRaises(r)
        \/ MainExcept(r)
        \/ MainExit(r)

\* One run of main() over any input, the file being there or not.
InitMain ==
    /\ input_exists \in BOOLEAN
    /\ file \in (IF input_exists THEN MainTables ELSE {<<>>})
    /\ pc = [r \in Runs |-> IF r = 1 THEN "main" ELSE "off"]
    /\ heap = [r \in Runs |-> [o \in {"df", "copy"} |-> <<>>]]
    /\ df_fixed = [r \in Runs |-> "none"]
    /\ idx = [r \in Runs |-> 0]
    /\ rng = [r \in Runs |-> EntropyState(r)]
    /\ stream = [s \in Seeds |-> <<>>]
    /\ locals = [r \in Runs |-> <<>>]
    /\ report = [r \in Runs |-> [computed |-> FALSE,
                                high_roas_zero_conv |-> 0,
                                revenue_conv_consistent |-> 0]]
    /\ output = [r \in Runs |-> NoOutput]
    /\ proc = [r \in Runs |-> NoFailure]

SpecMain == InitMain /\ [][NextMain]_vars

SpecTwice == InitTwice /\ [][Next]_vars

\* The table fix_data_comprehensive returns (or is building) in run r.
Fixed(r) == heap[r][df_fixed[r]]
Started(r) == pc[r] \in {"loop", "returned", "done"}

\* The rows run r has synthesized so far.
Processed(r) == IF Started(r) THEN 1..idx[r] ELSE {}
Finished(r) == pc[r] \in {"returned", "done"}
SynthesizedColumns ==
    {"Total_Conversion", "Approved_Conversion", "Revenue_Total",
     "Revenue_Approved", "CVR_Total", "CVR_Approved", "CPA_Total",
     "CPA_Approved", "ROAS_Total", "ROAS_Approved"}

(***************************************************************************)
(* Claims.                                                                 *)
(***************************************************************************)

\* C1: every synthesized row has
\* 0 <= Approved_Conversion <= Total_Conversion <= Clicks, whatever was drawn.
C1_ConversionFunnel ==
    \A r \in Runs : \A k \in Processed(r) :
        LET o == Fixed(r)[k] IN
        /\ 0 <= o.Approved_Conversion
        /\ o.Approved_Conversion <= o.Total_Conversion
        /\ o.Total_Conversion <= o.Clicks

\* A finished run with a Binomial row that converted every click and has
\* approved conversions, and a Bernoulli row that converted.
C1_Witness ==
    \E r \in Runs :
        /\ Finished(r)
        /\ \E k \in Processed(r) :
             /\ locals[r][k].branch = "binomial"
             /\ Fixed(r)[k].Total_Conversion = Fixed(r)[k].Clicks
             /\ Fixed(r)[k].Clicks > 1
             /\ Fixed(r)[k].Approved_Conversion > 0
        /\ \E k \in Processed(r) :
             /\ locals[r][k].branch = "bernoulli"
             /\ Fixed(r)[k].Total_Conversion = 1

\* C2: in every synthesized row Revenue_Total is 0 iff Total_Conversion is 0
\* and Revenue_Approved is 0 iff Approved_Conversion is 0; the reporter's
\* Revenue-Conversion consistency count is the number of rows.
C2_RevenueIffConversion ==
    \A r \in Runs :
        /\ \A k \in Processed(r) :
             LET o == Fixed(r)[k] IN
             /\ (o.Revenue_Total = Zero) <=> (o.Total_Conversion = 0)
             /\ (o.Revenue_Approved = Zero) <=> (o.Approved_Conversion = 0)
        /\ report[r].computed =>
             report[r].revenue_conv_consistent = Len(Fixed(r))

\* A reported table with a converting row without approved conversions and
\* a row without conversions.
C2_Witness ==
    \E r \in Runs :
        /\ report[r].computed
        /\ Len(Fixed(r)) >= 2
        /\ \E k \in Processed(r) :
             /\ Fixed(r)[k].Total_Conversion > 0
             /\ Fixed(r)[k].Approved_Conversion = 0
             /\ FLt(Zero, Fixed(r)[k].Revenue_Total)
        /\ \E k \in Processed(r) :
             /\ Fixed(r)[k].Clicks > 0
             /\ Fixed(r)[k].Total_Conversion = 0

\* C3: no synthesized row has a positive ROAS_Total with Total_Conversion 0,
\* and the reporter's count of rows with ROAS_Total > 5 and no conversion is 0.
C3_NoRoasWithoutConversion ==
    \A r \in Runs :
        /\ \A k \in Processed(r) :
             ~ (/\ FLt(Zero, Fixed(r)[k].ROAS_Total)
                /\ Fixed(r)[k].Total_Conversion = 0)
        /\ report[r].computed => report[r].high_roas_zero_conv = 0

\* A reported table one input row of which carried ROAS_Total > 5 with no
\* conversion and still has none, and one row of which has ROAS_Total > 5.
C3_Witness ==
    \E r \in Runs :
        /\ report[r].computed
        /\ \E k \in Processed(r) :
             /\ FLt(Whole(5), file[k].ROAS_Total)
             /\ file[k].Total_Conversion = 0
             /\ Fixed(r)[k].Total_Conversion = 0
        /\ \E k \in Processed(r) : FLt(Whole(5), Fixed(r)[k].ROAS_Total)

\* C4: in every synthesized row ROAS_Total * Spent is the synthesized
\* Revenue_Total when Spent > 0, and ROAS_Total is 0 otherwise; likewise
\* ROAS_Approved with Revenue_Approved.  The revenue is the one just drawn.
C4_RoasFromSynthesizedRevenue ==
    \A r \in Runs : \A k \in Processed(r) :
        LET o == Fixed(r)[k]
            RatioOf(roas, revenue) ==
                IF o.Spent > 0
                THEN /\ roas.den > 0
                     /\ roas.num * o.Spent * revenue.den = revenue.num * roas.den
                ELSE roas = Zero
        IN  /\ o.Revenue_Total = locals[r][k].total_revenue
            /\ o.Revenue_Approved = locals[r][k].approved_revenue
            /\ RatioOf(o.ROAS_Total, o.Revenue_Total)
            /\ RatioOf(o.ROAS_Approved, o.Revenue_Approved)

\* A row with spend whose revenue and ROAS both differ from the input's, and
\* a row without spend that has revenue.
C4_Witness ==
    \E r \in Runs :
        /\ \E k \in Processed(r) :
             /\ Fixed(r)[k].Spent > 0
             /\ Fixed(r)[k].Approved_Conversion > 0
             /\ Fixed(r)[k].Revenue_Total # file[k].Revenue_Total
             /\ Fixed(r)[k].ROAS_Total # file[k].ROAS_Total
             /\ FLt(Zero, Fixed(r)[k].ROAS_Approved)
        /\ \E k \in Processed(r) :
             /\ Fixed(r)[k].Spent = 0
             /\ FLt(Zero, Fixed(r)[k].Revenue_Total)

\* C5: in every synthesized row CPA_Total * Total_Conversion is Spent when
\* Total_Conversion > 0 and CPA_Total is 0 otherwise; likewise CPA_Approved
\* with Approved_Conversion.  No synthesized column is the result of a
\* division by zero.
C5_CpaGuarded ==
    \A r \in Runs : \A k \in Processed(r) :
        LET o == Fixed(r)[k]
            CostOf(cpa, conversions) ==
                IF conversions > 0
                THEN /\ cpa.den > 0
                     /\ cpa.num * conversions = o.Spent * cpa.den
                ELSE cpa = Zero
        IN  /\ CostOf(o.CPA_Total, o.Total_Conversion)
            /\ CostOf(o.CPA_Approved, o.Approved_Conversion)
            /\ \A c \in {"Revenue_Total", "Revenue_Approved", "CVR_Total",
                         "CVR_Approved", "CPA_Total", "CPA_Approved",
                         "ROAS_Total", "ROAS_Approved"} : ~ IsNaN(o[c])

\* A row with spend, one conversion and no approved one, and a row with spend
\* and no conversion.
C5_Witness ==
    \E r \in Runs :
        /\ \E k \in Processed(r) :
             /\ Fixed(r)[k].Spent > 0
             /\ Fixed(r)[k].Total_Conversion > 0
             /\ Fixed(r)[k].Approved_Conversion = 0
             /\ FLt(Zero, Fixed(r)[k].CPA_Total)
        /\ \E k \in Processed(r) :
             /\ Fixed(r)[k].Spent > 0
             /\ Fixed(r)[k].Total_Conversion = 0

RECURSIVE SumDraws(_)
SumDraws(ls) == IF ls = <<>> THEN 0 ELSE ls[1].draws + SumDraws(Tail(ls))

\* C6: a run draws from the stream of the fixed seed only, from its start and
\* without a gap or a restart, row after row in table order; two runs over
\* the same table return identical tables.
C6_Deterministic ==
    /\ \A r \in Runs : Started(r) =>
         /\ rng[r].seed = FixedSeed
         /\ Len(locals[r]) = idx[r]
         /\ rng[r].pos = SumDraws(locals[r])
         /\ \A k \in 1..idx[r] :
              locals[r][k].pos_before = SumDraws(SubSeq(locals[r], 1, k - 1))
    /\ \A r1, r2 \in Runs :
         /\ \A k \in Processed(r1) \cap Processed(r2) :
              Fixed(r1)[k] = Fixed(r2)[k]
         /\ Finished(r1) /\ Finished(r2) => Fixed(r1) = Fixed(r2)

\* Both runs have returned a table of two rows that each took four draws.
C6_Witness ==
    /\ \A r \in Runs : Finished(r)
    /\ Len(file) >= 2
    /\ \A k \in 1..Len(file) : Fixed(2)[k].Total_Conversion > 0
    /\ rng[2].pos = 4 * Len(file)
    /\ file[1] # file[2]

\* C7: a row with Clicks = 0 has all ten synthesized columns 0, whatever its
\* other columns, and its synthesis leaves the stream position where it was.
C7_ZeroClicks ==
    \A r \in Runs : \A k \in Processed(r) :
        file[k].Clicks = 0 =>
            LET o == Fixed(r)[k] IN
            /\ o.Total_Conversion = 0 /\ o.Approved_Conversion = 0
            /\ o.Revenue_Total = Zero /\ o.Revenue_Approved = Zero
            /\ o.CVR_Total = Zero /\ o.CVR_Approved = Zero
            /\ o.CPA_Total = Zero /\ o.CPA_Approved = Zero
            /\ o.ROAS_Total = Zero /\ o.ROAS_Approved = Zero
            /\ locals[r][k].draws = 0
            /\ locals[r][k].pos_after = locals[r][k].pos_before

\* A row without clicks, with spend and with revenue and ROAS in the input,
\* synthesized after a row that took draws.
C7_Witness ==
    \E r \in Runs : \E k \in Processed(r) :
        /\ file[k].Clicks = 0
        /\ file[k].Spent > 0
        /\ FLt(Zero, file[k].ROAS_Total)
        /\ FLt(Zero, file[k].Revenue_Total)
        /\ locals[r][k].pos_before > 0
        /\ rng[r].pos = locals[r][k].pos_before

\* C8: for a row with Clicks >= 1 the realistic CVR lies in [0.005, max_cvr],
\* max_cvr being 0.12 up to 3 clicks, 0.08 up to 8 clicks and 0.06 beyond.
C8_RealisticCvrClamped ==
    \A r \in Runs : \A k \in Processed(r) :
        file[k].Clicks >= 1 =>
            LET ceiling == IF file[k].Clicks <= 3 THEN Frac(12, 100)
                           ELSE IF file[k].Clicks <= 8 THEN Frac(8, 100)
                           ELSE Frac(6, 100)
            IN  /\ locals[r][k].max_cvr = ceiling
                /\ FLe(Frac(5, 1000), locals[r][k].realistic_cvr)
                /\ FLe(locals[r][k].realistic_cvr, ceiling)

\* A one-click row held at the floor and a row held at its ceiling.
C8_Witness ==
    \E r \in Runs :
        /\ \E k \in Processed(r) :
             /\ file[k].Clicks = 1
             /\ locals[r][k].realistic_cvr = Frac(5, 1000)
        /\ \E k \in Processed(r) :
             /\ file[k].Clicks > 8
             /\ locals[r][k].realistic_cvr = Frac(6, 100)

IsScenario(row) ==
    /\ row.age = "35-39" /\ row.gender = "F"
    /\ row.Impressions = 1000 /\ row.Clicks = 20 /\ row.Spent = 60

\* C9: the scenario row {35-39, F, 1000 impressions, 20 clicks, spent 60} is
\* always drawn on the Binomial branch, its tier is standard or premium when
\* it converts, and CPA_Total is 60 / Total_Conversion when it converts and
\* 0 when it does not.
C9_Scenario ==
    \A r \in Runs : \A k \in Processed(r) :
        IsScenario(file[k]) =>
            LET o == Fixed(r)[k] IN
            /\ locals[r][k].branch = "binomial"
            /\ o.Total_Conversion \in 0..20
            /\ o.Total_Conversion > 0 =>
                 /\ locals[r][k].tier \in {"standard", "premium"}
                 /\ o.CPA_Total.den > 0
                 /\ o.CPA_Total.num * o.Total_Conversion = 60 * o.CPA_Total.den
            /\ o.Total_Conversion = 0 => o.CPA_Total = Zero

\* The scenario row synthesized twice in one table, once with conversions
\* and once without.
C9_Witness ==
    \E r \in Runs :
        /\ \E k \in Processed(r) :
             /\ IsScenario(file[k])
             /\ Fixed(r)[k].Total_Conversion > 0
             /\ locals[r][k].tier = "premium"
        /\ \E k \in Processed(r) :
             /\ IsScenario(file[k])
             /\ Fixed(r)[k].Total_Conversion = 0

\* C10: the table being built has the rows of the input in their order; each
\* row has the input's columns, with the input's value in every column but
\* the ten synthesized ones; rows not yet synthesized are as in the input;
\* the table read from the file is not changed.
C10_Frame ==
    \A r \in Runs : Started(r) =>
        /\ heap[r]["df"] = file
        /\ Len(Fixed(r)) = Len(file)
        /\ \A k \in 1..Len(file) :
             /\ DOMAIN Fixed(r)[k] = DOMAIN file[k]
             /\ \A c \in DOMAIN file[k] \ SynthesizedColumns :
                  Fixed(r)[k][c] = file[k][c]
             /\ k > idx[r] => Fixed(r)[k] = file[k]

\* A returned table of two different rows, every synthesized column of the
\* first of which was changed.
C10_Witness ==
    \E r \in Runs :
        /\ Finished(r)
        /\ Len(file) = 2
        /\ file[1].ad_id # file[2].ad_id
        /\ \A c \in SynthesizedColumns : Fixed(r)[1][c] # file[1][c]
        /\ Fixed(r)[2] # file[2]

\* C11: a run of main() puts rows in the output file only when every record
\* has been synthesized, and they are rows of the synthesized table; a run in
\* which reading the input or synthesizing a record raised has put nothing in
\* the output file, at any point of the run.
C11_AllOrNothingWrite ==
    \A r \in Runs :
        /\ output[r].written =>
             /\ input_exists
             /\ pc[r] \notin {"main", "start", "loop"}
             /\ idx[r] = Len(file)
             /\ proc[r].stage \notin {"read", "synthesis"}
             /\ Len(output[r].rows) <= Len(Fixed(r))
             /\ output[r].rows = SubSeq(Fixed(r), 1, Len(output[r].rows))
             /\ output[r].complete => output[r].rows = Fixed(r)
        /\ proc[r].stage \in {"read", "synthesis"} => output[r] = NoOutput

\* A run that has ended after the synthesis of a record raised, an earlier
\* record having been synthesized in memory, with nothing in the output file.
C11_Witness ==
    \E r \in Runs :
        /\ pc[r] = "exited"
        /\ proc[r].stage = "synthesis"
        /\ idx[r] >= 1
        /\ Fixed(r) # file
        /\ output[r] = NoOutput

\* C12: a run of main() in which something other than a missing input file
\* was raised ends with the error message on the console and with an exit
\* status that signals the failure.
C12_FailureSignalled ==
    \A r \in Runs :
        pc[r] = "exited" /\ proc[r].raised = "Exception" =>
            /\ proc[r].console # <<>>
            /\ proc[r].console[Len(proc[r].console)] = "error"
            /\ proc[r].exit # "status 0"

\* The raw value of the i-th draw made for row k of run r.
DrawOf(r, k, i) == stream[rng[r].seed][locals[r][k].pos_before + i]

\* C13: for a row with Clicks >= 1, when realistic_cvr * Clicks < 0.15 the
\* conversion count is one Bernoulli trial of that probability, 0 or 1;
\* otherwise it is one Binomial draw with n = Clicks and p = realistic_cvr,
\* in 0..Clicks.  One conversion draw is made per row, the second draw.
C13_DrawRegime ==
    \A r \in Runs : \A k \in Processed(r) :
        file[k].Clicks >= 1 =>
            LET l == locals[r][k]
                clicks == file[k].Clicks
                expected == FMul(l.realistic_cvr, Whole(clicks))
                count == Fixed(r)[k].Total_Conversion
            IN  /\ l.draws = IF count > 0 THEN 4 ELSE 2
                /\ count = l.new_conversions
                /\ IF FLt(expected, Frac(15, 100))
                   THEN /\ l.branch = "bernoulli"
                        /\ count \in {0, 1}
                        /\ count = 1 <=> FLt(Random(DrawOf(r, k, 2)), expected)
                   ELSE /\ l.branch = "binomial"
                        /\ count \in 0..clicks
                        /\ count = Binomial(clicks, l.realistic_cvr, DrawOf(r, k, 2))

\* Rows of three clicks, one drawn as a successful Bernoulli trial and one
\* as a Binomial draw that converted every click.
C13_Witness ==
    \E r \in Runs :
        /\ \E k \in Processed(r) :
             /\ file[k].Clicks = 3
             /\ locals[r][k].branch = "bernoulli"
             /\ Fixed(r)[k].Total_Conversion = 1
        /\ \E k \in Processed(r) :
             /\ file[k].Clicks = 3
             /\ locals[r][k].branch = "binomial"
             /\ Fixed(r)[k].Total_Conversion = 3

\* The revenue range the claim gives for a tier, and its two conditions.
ClaimedRange(tier) ==
    CASE tier = "basic"    -> [lo |-> Whole(40),  hi |-> Whole(120)]
      [] tier = "standard" -> [lo |-> Whole(150), hi |-> Whole(400)]
      [] tier = "premium"  -> [lo |-> Whole(600), hi |-> Whole(1200)]
LowSpendOrClicks(row) == row.Spent < 10 \/ row.Clicks < 5
HighSpendOrClicks(row) == row.Spent > 50 \/ row.Clicks > 30

\* The revenue of a converting row is drawn from its tier's range, as the
\* third draw, and multiplied by the age multiplier afterwards.
RevenueFromTier(r, k) ==
    LET l == locals[r][k]
        range == ClaimedRange(l.tier)
    IN  /\ FLe(range.lo, l.base_revenue) /\ FLe(l.base_revenue, range.hi)
        /\ l.base_revenue = Uniform(range.lo, range.hi, DrawOf(r, k, 3))
        /\ l.revenue_per_conv = FMul(l.base_revenue, AgeRevenueMult(file[k].age))
        /\ Fixed(r)[k].Revenue_Total =
               FMul(Whole(Fixed(r)[k].Total_Conversion), l.revenue_per_conv)

\* C14, as stated: a converting row with Spent < 10 or Clicks < 5 is basic,
\* one with Spent > 50 or Clicks > 30 is premium, any other is standard, and
\* its revenue is drawn from that tier's range.
C14_TierAsStated ==
    \A r \in Runs : \A k \in Processed(r) :
        Fixed(r)[k].Total_Conversion > 0 =>
            /\ LowSpendOrClicks(file[k]) => locals[r][k].tier = "basic"
            /\ HighSpendOrClicks(file[k]) => locals[r][k].tier = "premium"
            /\ ~ LowSpendOrClicks(file[k]) /\ ~ HighSpendOrClicks(file[k]) =>
                 locals[r][k].tier = "standard"
            /\ RevenueFromTier(r, k)

\* C14, amended: a converting row with Spent < 10 or Clicks < 5 is basic; one
\* that is not, with Spent > 50 or Clicks > 30, is premium; any other is
\* standard; its revenue is drawn from that tier's range.
C14_TierBasicFirst ==
    \A r \in Runs : \A k \in Processed(r) :
        Fixed(r)[k].Total_Conversion > 0 =>
            /\ locals[r][k].tier =
                 IF LowSpendOrClicks(file[k]) THEN "basic"
                 ELSE IF HighSpendOrClicks(file[k]) THEN "premium"
                 ELSE "standard"
            /\ RevenueFromTier(r, k)

\* A converting row of high spend and few clicks, which is basic, and a
\* converting premium row.
C14_Witness ==
    \E r \in Runs :
        /\ \E k \in Processed(r) :
             /\ Fixed(r)[k].Total_Conversion > 0
             /\ LowSpendOrClicks(file[k]) /\ HighSpendOrClicks(file[k])
             /\ locals[r][k].tier = "basic"
        /\ \E k \in Processed(r) :
             /\ Fixed(r)[k].Total_Conversion > 0
             /\ locals[r][k].tier = "premium"

\* C15: every output row's CVR_Total lies in [0.005, 0.06].
C15_CvrTotalInRange ==
    \A r \in Runs : \A k \in Processed(r) :
        /\ FLe(Frac(5, 1000), Fixed(r)[k].CVR_Total)
        /\ FLe(Fixed(r)[k].CVR_Total, Frac(6, 100))

\* C16: the approval rate is at most 0.88 and the product is truncated, so a
\* row with a conversion has fewer approved conversions than conversions; a
\* row with exactly one conversion has no approved conversion, no approved
\* revenue and approved ratios of 0; an approved conversion needs at least
\* two conversions.
C16_ApprovedBelowTotal ==
    \A r \in Runs : \A k \in Processed(r) :
        LET row == Fixed(r)[k]
            l == locals[r][k]
        IN  /\ row.Total_Conversion >= 1 =>
                 /\ FLe(Frac(70, 100), l.approval_rate)
                 /\ FLe(l.approval_rate, Frac(88, 100))
                 /\ row.Approved_Conversion =
                        Floor(FMul(Whole(row.Total_Conversion), l.approval_rate))
                 /\ row.Approved_Conversion < row.Total_Conversion
            /\ row.Total_Conversion = 1 =>
                 /\ row.Approved_Conversion = 0
                 /\ row.Revenue_Approved = Zero
                 /\ row.CPA_Approved = Zero
                 /\ row.ROAS_Approved = Zero
            /\ row.Approved_Conversion > 0 => row.Total_Conversion >= 2

\* A row with one conversion and none approved, and a row with several
\* conversions of which some are approved.
C16_Witness ==
    \E r \in Runs :
        /\ \E k \in Processed(r) :
             /\ Fixed(r)[k].Total_Conversion = 1
             /\ Fixed(r)[k].Approved_Conversion = 0
             /\ Fixed(r)[k].Revenue_Total # Zero
        /\ \E k \in Processed(r) :
             /\ Fixed(r)[k].Total_Conversion >= 2
             /\ Fixed(r)[k].Approved_Conversion > 0

\* The number of draws the rows before row k consume: two for each clicked
\* row and two more for each converting row.
DrawsBefore(r, k) ==
    2 * Cardinality({j \in 1..(k - 1) : file[j].Clicks > 0})
  + 2 * Cardinality({j \in 1..(k - 1) : Fixed(r)[j].Total_Conversion > 0})

\* C17: a row draws in the order variance, conversion, per-conversion
\* revenue, approval rate; it consumes no draw when Clicks = 0, two when it has
\* clicks and no conversion, four when it has a conversion; the position of
\* the stream at which row k starts is fixed by the number of clicked and of
\* converting rows before it.
C17_DrawOrder ==
    \A r \in Runs : \A k \in Processed(r) :
        LET l == locals[r][k]
            row == file[k]
            policy == SampleSizePolicy(row.Clicks)
            range == RevenueTiers(l.tier)
        IN  /\ l.draws = IF row.Clicks = 0 THEN 0
                         ELSE IF l.new_conversions = 0 THEN 2 ELSE 4
            /\ l.pos_before = DrawsBefore(r, k)
            /\ l.pos_after = l.pos_before + l.draws
            /\ k = idx[r] => rng[r].pos = l.pos_after
            /\ row.Clicks > 0 =>
                 /\ l.variance = Uniform(policy.lo, policy.hi, DrawOf(r, k, 1))
                 /\ l.new_conversions =
                        NewConversions(row.Clicks, l.realistic_cvr,
                                       DrawOf(r, k, 2)).count
            /\ l.new_conversions > 0 =>
                 /\ l.base_revenue = Uniform(range.lo, range.hi, DrawOf(r, k, 3))
                 /\ l.approval_rate =
                        Uniform(Frac(70, 100), Frac(88, 100), DrawOf(r, k, 4))

\* Two tables' worth of positions: a second row that starts at position 4
\* after a converting row, and one that starts at position 2 after a clicked
\* row without a conversion.
C17_Witness ==
    \E r \in Runs :
        /\ idx[r] = 2 /\ Started(r)
        /\ file[1].Clicks > 0 /\ file[2].Clicks > 0
        /\ Fixed(r)[1].Total_Conversion > 0
        /\ locals[r][2].pos_before = 4
        /\ locals[r][2].draws = 2
        /\ rng[r].pos = 6
====
